---- MODULE Spec2Model ----
(***************************************************************************)
(* A model of main.py, the Telegram "Business Ideas Generator" bot:        *)
(* the MarkdownV2 escaper, the Gemini completion gateway, the callback     *)
(* router, the idea delivery with plaintext fallback, and run().           *)
(*                                                                         *)
(* Python strings are sequences of characters; a character is a one-letter *)
(* TLA+ string; a code point outside ASCII, and the backtick, is "U+XXXX". *)
(***************************************************************************)
EXTENDS Integers, Sequences, FiniteSets, TLC

VARIABLES
    \* module globals of main.py (lines 17, 18, 44/47) and the WEBHOOK_URL read by run()
    TELEGRAM_BOT_TOKEN, GEMINI_API_KEY, model, WEBHOOK_URL,
    \* run(): position, self.updater, the dispatcher's handlers, the transport started,
    \* and the logger.critical records
    runPc, updater, handlers, transport, criticalLog,
    \* the chat as the user sees it: the bot's messages that carry or carried buttons
    chat, shown,
    \* the update being handled, the handler's position and locals, a pending exception
    update, pc, locals, exc,
    \* what the handling of the current update did: handlers invoked by the router,
    \* calls to the chat transport and the completion service, error_handler runs
    routed, calls, errorRuns, uncaught,
    \* a direct call of one of the pure functions: arguments, position, result
    fnArgs, fnPc, fnRet

runVars == <<TELEGRAM_BOT_TOKEN, GEMINI_API_KEY, model, WEBHOOK_URL,
             runPc, updater, handlers, transport, criticalLog>>
reqVars == <<chat, shown, update, pc, locals, exc, routed, calls, errorRuns, uncaught>>
fnVars  == <<fnArgs, fnPc, fnRet>>
vars    == <<runVars, reqVars, fnVars>>

----------------------------------------------------------------------------
(* Python str operations, on sequences of characters *)

\* s.startswith(p)
StartsWith(s, p) ==
    /\ Len(p) <= Len(s)
    /\ SubSeq(s, 1, Len(p)) = p

\* p in s
Contains(s, p) ==
    \E i \in 1..(Len(s) - Len(p) + 1) : SubSeq(s, i, i + Len(p) - 1) = p

\* the index of the first occurrence of p in s (s.find(p), from 1), or 0
Find(s, p) ==
    LET at == { i \in 1..(Len(s) - Len(p) + 1) : SubSeq(s, i, i + Len(p) - 1) = p }
    IN  IF at = {} THEN 0 ELSE CHOOSE i \in at : \A j \in at : i <= j

\* s.replace(old, new), old non-empty: the occurrences of old that do not overlap,
\* from the left, each replaced by new
RECURSIVE Replace(_, _, _)
Replace(s, old, new) ==
    LET i == Find(s, old)
    IN  IF i = 0 THEN s
        ELSE SubSeq(s, 1, i - 1) \o new
               \o Replace(SubSeq(s, i + Len(old), Len(s)), old, new)

Backslash == "\\"

----------------------------------------------------------------------------
(* escape_markdown_v2 *)

\* escape_chars, line 34; the backtick is written "U+0060"
escape_chars ==
    <<"_", "*", "[", "]", "(", ")", "~", "U+0060", ">", "#", "+", "-", "=", "|", "{", "}",
      ".", "!">>

\* the class of the pattern written without re.escape on the "-": "+-=" is then
\* the range from "+" to "=", which also holds , . / : ; < and the digits
EscapeClassRange ==
    { escape_chars[i] : i \in 1..Len(escape_chars) }
      \cup {",", "/", ":", ";", "<", "0", "1", "2", "3", "4", "5", "6", "7", "8", "9"}

\* the characters of the class [ re.escape(escape_chars) ]: re.escape puts a
\* backslash before each special character, so inside the brackets every
\* character of escape_chars stands for itself
EscapeClass == { escape_chars[i] : i \in 1..Len(escape_chars) }

\* the index of the first character of text that is in class, or 0
FirstIn(text, class) ==
    LET at == { i \in 1..Len(text) : text[i] \in class }
    IN  IF at = {} THEN 0 ELSE CHOOSE i \in at : \A j \in at : i <= j

\* re.sub('([class])', r'\\\1', text): every character of the class, from the
\* left, is replaced by a backslash and itself; the rest of text is kept
RECURSIVE SubEscape(_, _)
SubEscape(text, class) ==
    LET i == FirstIn(text, class)
    IN  IF i = 0 THEN text
        ELSE SubSeq(text, 1, i - 1) \o <<Backslash, text[i]>>
               \o SubEscape(SubSeq(text, i + 1, Len(text)), class)

\* line 35
escape_markdown_v2(text) == SubEscape(text, EscapeClass)

----------------------------------------------------------------------------
(* BUSINESS_CATEGORIES *)

key_tech ==
    <<"t", "e", "c", "h">>

label_tech ==
    <<"U+1F680", " ", "T", "e", "c", "h", "n", "o", "l", "o", "g", "y", " ", "&", " ",
        "S", "o", "f", "t", "w", "a", "r", "e">>

key_ecommerce ==
    <<"e", "c", "o", "m", "m", "e", "r", "c", "e">>

label_ecommerce ==
    <<"U+1F6D2", " ", "E", "-", "c", "o", "m", "m", "e", "r", "c", "e", " ", "&", " ",
        "O", "n", "l", "i", "n", "e", " ", "B", "u", "s", "i", "n", "e", "s", "s">>

key_health ==
    <<"h", "e", "a", "l", "t", "h">>

label_health ==
    <<"U+1F3E5", " ", "H", "e", "a", "l", "t", "h", " ", "&", " ", "W", "e", "l", "l",
        "n", "e", "s", "s">>

key_food ==
    <<"f", "o", "o", "d">>

label_food ==
    <<"U+1F354", " ", "F", "o", "o", "d", " ", "&", " ", "B", "e", "v", "e", "r", "a",
        "g", "e">>

key_education ==
    <<"e", "d", "u", "c", "a", "t", "i", "o", "n">>

label_education ==
    <<"U+1F4DA", " ", "E", "d", "u", "c", "a", "t", "i", "o", "n", " ", "&", " ", "T",
        "r", "a", "i", "n", "i", "n", "g">>

key_finance ==
    <<"f", "i", "n", "a", "n", "c", "e">>

label_finance ==
    <<"U+1F4B0", " ", "F", "i", "n", "a", "n", "c", "e", " ", "&", " ", "I", "n", "v",
        "e", "s", "t", "m", "e", "n", "t">>

key_marketing ==
    <<"m", "a", "r", "k", "e", "t", "i", "n", "g">>

label_marketing ==
    <<"U+1F4F1", " ", "M", "a", "r", "k", "e", "t", "i", "n", "g", " ", "&", " ", "S",
        "o", "c", "i", "a", "l", " ", "M", "e", "d", "i", "a">>

key_sustainability ==
    <<"s", "u", "s", "t", "a", "i", "n", "a", "b", "i", "l", "i", "t", "y">>

label_sustainability ==
    <<"U+1F331", " ", "S", "u", "s", "t", "a", "i", "n", "a", "b", "i", "l", "i", "t",
        "y", " ", "&", " ", "G", "r", "e", "e", "n", " ", "B", "u", "s", "i", "n", "e",
        "s", "s">>

key_retail ==
    <<"r", "e", "t", "a", "i", "l">>

label_retail ==
    <<"U+1F3EA", " ", "R", "e", "t", "a", "i", "l", " ", "&", " ", "C", "o", "n", "s",
        "u", "m", "e", "r", " ", "G", "o", "o", "d", "s">>

key_services ==
    <<"s", "e", "r", "v", "i", "c", "e", "s">>

label_services ==
    <<"U+1F527", " ", "P", "r", "o", "f", "e", "s", "s", "i", "o", "n", "a", "l", " ",
        "S", "e", "r", "v", "i", "c", "e", "s">>

key_entertainment ==
    <<"e", "n", "t", "e", "r", "t", "a", "i", "n", "m", "e", "n", "t">>

label_entertainment ==
    <<"U+1F3AC", " ", "E", "n", "t", "e", "r", "t", "a", "i", "n", "m", "e", "n", "t",
        " ", "&", " ", "M", "e", "d", "i", "a">>

key_travel ==
    <<"t", "r", "a", "v", "e", "l">>

label_travel ==
    <<"U+2708", "U+FE0F", " ", "T", "r", "a", "v", "e", "l", " ", "&", " ", "T", "o",
        "u", "r", "i", "s", "m">>

\* the dict's keys in insertion order
CategoryKeys ==
    <<key_tech, key_ecommerce, key_health, key_food, key_education, key_finance,
      key_marketing, key_sustainability, key_retail, key_services, key_entertainment, key_travel>>

CategoryLabels ==
    <<label_tech, label_ecommerce, label_health, label_food, label_education, label_finance,
      label_marketing, label_sustainability, label_retail, label_services, label_entertainment, label_travel>>

KeySet == { CategoryKeys[i] : i \in 1..Len(CategoryKeys) }
LabelSet == { CategoryLabels[i] : i \in 1..Len(CategoryLabels) }

\* BUSINESS_CATEGORIES[key]
BUSINESS_CATEGORIES(key) ==
    CategoryLabels[CHOOSE i \in 1..Len(CategoryKeys) : CategoryKeys[i] = key]


UnknownCategory ==
    <<"U", "n", "k", "n", "o", "w", "n", " ", "C", "a", "t", "e", "g", "o", "r", "y">>

\* BUSINESS_CATEGORIES.get(key, "Unknown Category")
CategoryGet(key) ==
    IF key \in KeySet THEN BUSINESS_CATEGORIES(key) ELSE UnknownCategory
----------------------------------------------------------------------------
(* generate_business_idea *)

\* an exception: its class and str(e); NoExc is "nothing raised"
Exc(cls, msg) == [cls |-> cls, msg |-> msg]
NoExc == Exc("None", <<>>)

\* the classes the completion client raises; each derives from Exception
CompletionErrorClasses == {"ResourceExhausted", "DeadlineExceeded", "ValueError"}

\* a handler written "except ValueError as e"
CaughtByExceptValueError(e) == e.cls = "ValueError"

\* "except Exception as e" (line 183)
CaughtByExceptException(e) == e.cls \in CompletionErrorClasses \cup {"Exception"}

\* the f-string of lines 185-191 is Head + {category} + Mid + {details} + Tail

ErrorCardHead ==
    <<"*", "U+274C", " ", "E", "r", "r", "o", "r", " ", "G", "e", "n", "e", "r", "a",
        "t", "i", "n", "g", " ", "I", "d", "e", "a", "*", "\n", "\n", "S", "o", "r", "r",
        "y", ",", " ", "I", " ", "e", "n", "c", "o", "u", "n", "t", "e", "r", "e", "d",
        " ", "a", "n", " ", "e", "r", "r", "o", "r", " ", "w", "h", "i", "l", "e", " ",
        "g", "e", "n", "e", "r", "a", "t", "i", "n", "g", " ", "a", " ", "b", "u", "s",
        "i", "n", "e", "s", "s", " ", "i", "d", "e", "a", " ", "f", "o", "r", " ", "*">>

ErrorCardMid ==
    <<"*", ".", "\n", "\n", "P", "l", "e", "a", "s", "e", " ", "t", "r", "y", " ", "a",
        "g", "a", "i", "n", " ", "l", "a", "t", "e", "r", " ", "o", "r", " ", "c", "o",
        "n", "t", "a", "c", "t", " ", "s", "u", "p", "p", "o", "r", "t", " ", "i", "f",
        " ", "t", "h", "e", " ", "i", "s", "s", "u", "e", " ", "p", "e", "r", "s", "i",
        "s", "t", "s", ".", "\n", "\n", "*", "E", "r", "r", "o", "r", " ", "D", "e", "t",
        "a", "i", "l", "s", ":", "*", " ", "U+0060">>

ErrorCardTail ==
    <<"U+0060">>

NotInitializedMsg ==
    <<"G", "e", "m", "i", "n", "i", " ", "A", "I", " ", "m", "o", "d", "e", "l", " ",
        "i", "s", " ", "n", "o", "t", " ", "i", "n", "i", "t", "i", "a", "l", "i", "z",
        "e", "d", ".">>

\* lines 184-192: the error card built from the template
ErrorCard(category_name, e) ==
    LET error_text == ErrorCardHead \o escape_markdown_v2(category_name)
                        \o ErrorCardMid \o escape_markdown_v2(e.msg) \o ErrorCardTail
    IN  Replace(error_text, <<Backslash, "*">>, <<"*">>)

\* What the completion service does with one request:
\*   [kind |-> "text", text |-> t]   generate_content returns, response.text is t
\*   [kind |-> "raise", e |-> e]     generate_content, or response.text, raises e
CompletionText(t) == [kind |-> "text", text |-> t, e |-> NoExc]
CompletionRaise(e) == [kind |-> "raise", text |-> <<>>, e |-> e]

\* lines 178-192. mdl is the module global model ("None" when the client was not
\* constructed). The result is [raised, value]: the exception that leaves the
\* function (NoExc when it returns) and the value returned.
generate_business_idea(category_name, mdl, outcome) ==
    LET e == IF mdl = "None" THEN Exc("Exception", NotInitializedMsg)
             ELSE IF outcome.kind = "raise" THEN outcome.e
             ELSE NoExc
    IN  IF e = NoExc THEN [raised |-> NoExc, value |-> outcome.text]
        ELSE IF CaughtByExceptException(e)
             THEN [raised |-> NoExc, value |-> ErrorCard(category_name, e)]
             ELSE [raised |-> e, value |-> <<>>]

----------------------------------------------------------------------------
(* Direct calls of the pure functions, on inputs drawn from bounded sets *)

\* the longest string escape_markdown_v2 is called with directly
MaxEscLen == 2

\* the reserved characters, the escape marker, and ordinary characters
EscAlphabet == EscapeClass \cup {Backslash, "a", "1", " "}

RECURSIVE StringsUpTo(_, _)
StringsUpTo(alphabet, n) ==
    IF n = 0 THEN {<<>>}
    ELSE LET shorter == StringsUpTo(alphabet, n - 1)
         IN  shorter \cup { <<c>> \o s : c \in alphabet, s \in { t \in shorter : Len(t) = n - 1 } }

\* the category names generate_business_idea is called with
CategoryNames == LabelSet \cup {UnknownCategory}

\* completion texts and failure messages
SampleTexts ==
    { <<>>, <<"*", "B", "i", "z", "*">>, <<"*", "A">>, <<"a", ".", "b">> }
SampleFailureMessages ==
    { <<>>, <<"q", "u", "o", "t", "a">>, <<"a", "*", "b">>, <<"4", "2", "9", " ", "(", "x", ")", ".">>,
      <<Backslash>>, <<"U+0060">> }
CompletionOutcomes ==
    { CompletionText(t) : t \in SampleTexts }
      \cup { CompletionRaise(Exc(c, m)) : c \in CompletionErrorClasses, m \in SampleFailureMessages }

NoArgs == [fn |-> "none", text |-> <<>>, category_name |-> <<>>, model |-> "None",
           outcome |-> CompletionText(<<>>)]
NoRet == [raised |-> NoExc, value |-> <<>>]

CallEscape ==
    /\ fnPc = "called"
    /\ fnArgs.fn = "escape_markdown_v2"
    /\ fnRet' = [raised |-> NoExc, value |-> escape_markdown_v2(fnArgs.text)]
    /\ fnPc' = "returned"
    /\ UNCHANGED <<fnArgs, runVars, reqVars>>

CallGenerate ==
    /\ fnPc = "called"
    /\ fnArgs.fn = "generate_business_idea"
    /\ fnRet' = generate_business_idea(fnArgs.category_name, fnArgs.model, fnArgs.outcome)
    /\ fnPc' = IF fnRet'.raised = NoExc THEN "returned" ELSE "raised"
    /\ UNCHANGED <<fnArgs, runVars, reqVars>>
----------------------------------------------------------------------------
(* The chat transport: Telegram, through python-telegram-bot *)

\* ParseMode.MARKDOWN_V2, and no parse_mode argument
MARKDOWN_V2 == "MarkdownV2"
NoParseMode == "None"

CantParseEntities ==
    <<"C", "a", "n", "'", "t", " ", "p", "a", "r", "s", "e", " ", "e", "n", "t", "i",
        "t", "i", "e", "s">>

CantParseMsg ==
    <<"C", "a", "n", "'", "t", " ", "p", "a", "r", "s", "e", " ", "e", "n", "t", "i",
        "t", "i", "e", "s", ":", " ", "c", "a", "n", "'", "t", " ", "f", "i", "n", "d",
        " ", "e", "n", "d", " ", "o", "f", " ", "b", "o", "l", "d", " ", "e", "n", "t",
        "i", "t", "y", " ", "a", "t", " ", "b", "y", "t", "e", " ", "o", "f", "f", "s",
        "e", "t", " ", "2">>

NotModifiedMsg ==
    <<"M", "e", "s", "s", "a", "g", "e", " ", "i", "s", " ", "n", "o", "t", " ", "m",
        "o", "d", "i", "f", "i", "e", "d">>

TimedOutMsg ==
    <<"T", "i", "m", "e", "d", " ", "o", "u", "t">>

\* What the transport answers to one call: NoExc (done), a BadRequest, or another
\* TelegramError. Only a text sent with a parse mode can fail to parse.
TransportResults(parse_mode) ==
    {NoExc, Exc("BadRequest", NotModifiedMsg), Exc("NetworkError", TimedOutMsg)}
      \cup (IF parse_mode = MARKDOWN_V2 THEN {Exc("BadRequest", CantParseMsg)} ELSE {})

\* the answers tried where the code treats every failure alike
DoneOrFailed == {NoExc, Exc("NetworkError", TimedOutMsg)}

\* the chat keeps the bot's MaxMsgs most recent messages in view
MaxMsgs == 1

\* a fixed text of the source, named by the variable that holds it
Fixed(name) == <<name>>

\* a message id not used by a message in view
FreshId(ch) ==
    CHOOSE i \in 1..(Len(ch) + 1) :
        /\ \A k \in 1..Len(ch) : ch[k].id # i
        /\ \A j \in 1..(i - 1) : \E k \in 1..Len(ch) : ch[k].id = j

Evict(ch) == IF Len(ch) > MaxMsgs THEN SubSeq(ch, Len(ch) - MaxMsgs + 1, Len(ch)) ELSE ch

RECURSIVE Without(_, _)
Without(ch, id) ==
    IF ch = <<>> THEN <<>>
    ELSE IF Head(ch).id = id THEN Without(Tail(ch), id)
    ELSE <<Head(ch)>> \o Without(Tail(ch), id)

Ids(ch) == { ch[k].id : k \in 1..Len(ch) }

Call(op, id, text, parse_mode, reply_markup, result) ==
    [op |-> op, message_id |-> id, text |-> text, parse_mode |-> parse_mode,
     reply_markup |-> reply_markup, result |-> result]

\* The world a handler acts on, w = [chat, shown, calls]:
\*   chat   the messages in view, each [id, kb]: its id and its buttons' callback_data
\*   shown  the messages this update's handling sent or edited and has not deleted,
\*          each [id, text, parse_mode, kb]
\*   calls  the calls made while handling this update, in order

\* message.reply_text / bot.send_message
Send(w, op, text, parse_mode, kb, result) ==
    LET id == FreshId(w.chat)
    IN  IF result = NoExc
        THEN [chat  |-> Evict(Append(w.chat, [id |-> id, kb |-> kb])),
              shown |-> Append(w.shown, [id |-> id, text |-> text,
                                         parse_mode |-> parse_mode, kb |-> kb]),
              calls |-> Append(w.calls, Call(op, id, text, parse_mode, kb, result))]
        ELSE [w EXCEPT !.calls = Append(@, Call(op, 0, text, parse_mode, kb, result))]

\* query.edit_message_text: the message that carries the pressed button is replaced
Edit(w, id, text, parse_mode, kb, result) ==
    LET m == [id |-> id, text |-> text, parse_mode |-> parse_mode, kb |-> kb]
    IN  IF result = NoExc
        THEN [chat  |-> [k \in 1..Len(w.chat) |->
                            IF w.chat[k].id = id THEN [id |-> id, kb |-> kb] ELSE w.chat[k]],
              shown |-> IF id \in Ids(w.shown)
                        THEN [k \in 1..Len(w.shown) |->
                                 IF w.shown[k].id = id THEN m ELSE w.shown[k]]
                        ELSE Append(w.shown, m),
              calls |-> Append(w.calls,
                               Call("edit_message_text", id, text, parse_mode, kb, result))]
        ELSE [w EXCEPT !.calls = Append(@,
                               Call("edit_message_text", id, text, parse_mode, kb, result))]

\* bot.delete_message
Delete(w, id, result) ==
    IF result = NoExc
    THEN [chat  |-> Without(w.chat, id),
          shown |-> Without(w.shown, id),
          calls |-> Append(w.calls, Call("delete_message", id, <<>>, NoParseMode, <<>>, result))]
    ELSE [w EXCEPT !.calls = Append(@,
                       Call("delete_message", id, <<>>, NoParseMode, <<>>, result))]

\* query.answer
Answer(w, result) ==
    [w EXCEPT !.calls = Append(@, Call("answer", 0, <<>>, NoParseMode, <<>>, result))]

\* model.generate_content
Completion(w, category_name) ==
    [w EXCEPT !.calls = Append(@,
                 Call("generate_content", 0, category_name, NoParseMode, <<>>, NoExc))]

\* The attributes of the two objects the handlers pass around. An Update has
\* message, callback_query and the effective_* shortcuts; a CallbackQuery has
\* message, data, answer and edit_message_text.
Attributes(obj) ==
    IF obj = "Update"
    THEN {"message", "callback_query", "effective_chat", "effective_message"}
    ELSE {"message", "data", "answer", "edit_message_text"}

AttributeError == Exc("AttributeError", <<>>)

----------------------------------------------------------------------------
(* Inline keyboards: the callback_data of the buttons, row by row *)

CategoryPrefix ==
    <<"c", "a", "t", "e", "g", "o", "r", "y", "_">>

id_show_categories ==
    <<"s", "h", "o", "w", "_", "c", "a", "t", "e", "g", "o", "r", "i", "e", "s">>

id_random_idea ==
    <<"r", "a", "n", "d", "o", "m", "_", "i", "d", "e", "a">>

id_help ==
    <<"h", "e", "l", "p">>

id_back_to_start ==
    <<"b", "a", "c", "k", "_", "t", "o", "_", "s", "t", "a", "r", "t">>

RECURSIVE Flatten(_)
Flatten(rows) == IF rows = <<>> THEN <<>> ELSE Head(rows) \o Flatten(Tail(rows))

Min(a, b) == IF a < b THEN a ELSE b

\* start, lines 93-97, and back_to_start, lines 373-377
MainMenuKeyboard == Flatten(<< <<id_show_categories>>, <<id_random_idea>>, <<id_help>> >>)

\* f"category_{key}"
CategoryButton(key) == CategoryPrefix \o key

\* show_categories, lines 114-126: two buttons a row, then Back to Menu
CategoriesKeyboard ==
    LET n == Len(CategoryKeys)
        rows == [r \in 1..((n + 1) \div 2) |->
                    [c \in 1..(Min(2 * r, n) - 2 * (r - 1)) |->
                        CategoryButton(CategoryKeys[2 * (r - 1) + c])]]
    IN  Flatten(rows \o << <<id_back_to_start>> >>)

\* show_help, lines 345-348
HelpKeyboard == Flatten(<< <<id_show_categories>>, <<id_back_to_start>> >>)

\* a result keyboard whose first button carries the category's label, not its key
ResultKeyboardByLabel(is_random, category_key) ==
    IF is_random
    THEN Flatten(<< <<id_random_idea>>, <<id_show_categories>>, <<id_back_to_start>> >>)
    ELSE Flatten(<< <<CategoryPrefix \o CategoryGet(category_key)>>, <<id_show_categories>>,
                    <<id_back_to_start>> >>)

\* _generate_and_send_idea, lines 253-277
ResultKeyboard(is_random, category_key) ==
    IF is_random
    THEN Flatten(<< <<id_random_idea>>, <<id_show_categories>>, <<id_back_to_start>> >>)
    ELSE Flatten(<< <<CategoryButton(category_key)>>, <<id_show_categories>>,
                    <<id_back_to_start>> >>)

----------------------------------------------------------------------------
(* callback_query_handler *)

\* route_map, lines 388-393: callback data to the method it names
RouteKeys == {id_show_categories, id_random_idea, id_help, id_back_to_start}

RouteMap(data) ==
    CASE data = id_show_categories -> "show_categories"
      [] data = id_random_idea     -> "random_business_idea"
      [] data = id_help            -> "show_help"
      [] data = id_back_to_start   -> "back_to_start"

\* "category_" occurs somewhere in the data
IsCategoryCallbackSubstring(data) == Contains(data, CategoryPrefix)

\* query.data.startswith("category_"), line 397
IsCategoryCallback(data) == StartsWith(data, CategoryPrefix)

\* lines 395-398: the handlers the router invokes for the data, in order
Route(data) ==
    IF data \in RouteKeys THEN <<RouteMap(data)>>
    ELSE IF IsCategoryCallback(data) THEN <<"handle_category_selection">>
    ELSE <<>>

\* the prefix cut by its length less one, which leaves the "_" on the key
CategoryKeyOfOffByOne(data) == SubSeq(data, Len(CategoryPrefix), Len(data))

\* query.data.replace("category_", ""), line 200
CategoryKeyOf(data) == Replace(data, CategoryPrefix, <<>>)

\* callback data no button of this bot carries and the router has no route for
id_unknown_empty ==
    <<>>

id_unknown_helpx ==
    <<"h", "e", "l", "p", "_", "m", "e">>

id_unknown_inner ==
    <<"o", "l", "d", "_", "c", "a", "t", "e", "g", "o", "r", "y", "_", "t", "e", "c",
        "h">>

id_unknown_case ==
    <<"C", "a", "t", "e", "g", "o", "r", "y", "_", "t", "e", "c", "h">>

id_unknown_short ==
    <<"c", "a", "t", "e", "g", "o", "r", "y">>

UnknownIds ==
    {id_unknown_empty, id_unknown_helpx, id_unknown_inner, id_unknown_case,
     id_unknown_short}
----------------------------------------------------------------------------
(* run() *)

\* "not value" for a value read from the environment: unset (None) or empty
Falsy(v) == v \in {"None", ""}

EnvValues == {"None", "", "set"}

\* the checks of lines 420-434 with the third one left out
StartupRefusalNoModelCheck(token, key, mdl) ==
    IF Falsy(token) THEN "TELEGRAM_BOT_TOKEN environment variable not set"
    ELSE IF Falsy(key) THEN "GEMINI_API_KEY environment variable not set"
    ELSE "none"

\* lines 420-434: the logger.critical message run() returns after, or "none"
StartupRefusal(token, key, mdl) ==
    IF Falsy(token) THEN "TELEGRAM_BOT_TOKEN environment variable not set"
    ELSE IF Falsy(key) THEN "GEMINI_API_KEY environment variable not set"
    ELSE IF mdl = "None" THEN "Gemini AI model failed to initialize"
    ELSE "none"

Handler(type, name, callback) == [type |-> type, name |-> name, callback |-> callback]

\* the handlers of lines 439-443, without add_error_handler
RegisteredHandlersNoErrorHandler ==
    { Handler("command", "start", "start"),
      Handler("command", "categories", "show_categories"),
      Handler("command", "random", "random_business_idea"),
      Handler("command", "help", "show_help"),
      Handler("callback_query", "", "callback_query_handler") }

\* lines 439-444
RegisteredHandlers ==
    { Handler("command", "start", "start"),
      Handler("command", "categories", "show_categories"),
      Handler("command", "random", "random_business_idea"),
      Handler("command", "help", "show_help"),
      Handler("callback_query", "", "callback_query_handler"),
      Handler("error", "", "error_handler") }

\* lines 420-434
RunChecks ==
    /\ runPc = "start"
    /\ LET refusal == StartupRefusal(TELEGRAM_BOT_TOKEN, GEMINI_API_KEY, model)
       IN  IF refusal = "none"
           THEN runPc' = "checked" /\ UNCHANGED criticalLog
           ELSE runPc' = "returned" /\ criticalLog' = Append(criticalLog, refusal)
    /\ UNCHANGED <<TELEGRAM_BOT_TOKEN, GEMINI_API_KEY, model, WEBHOOK_URL,
                   updater, handlers, transport, reqVars, fnVars>>

\* lines 436-444
RunRegister ==
    /\ runPc = "checked"
    /\ updater' = "Updater"
    /\ handlers' = RegisteredHandlers
    /\ runPc' = "registered"
    /\ UNCHANGED <<TELEGRAM_BOT_TOKEN, GEMINI_API_KEY, model, WEBHOOK_URL,
                   transport, criticalLog, reqVars, fnVars>>

\* lines 449-466
RunTransport ==
    /\ runPc = "registered"
    /\ transport' = IF Falsy(WEBHOOK_URL) THEN "polling" ELSE "webhook"
    /\ runPc' = "serving"
    /\ UNCHANGED <<TELEGRAM_BOT_TOKEN, GEMINI_API_KEY, model, WEBHOOK_URL,
                   updater, handlers, criticalLog, reqVars, fnVars>>

----------------------------------------------------------------------------
(* The dispatcher hands an update to its handler *)

NoUpdate == [kind |-> "none", command |-> "", data |-> <<>>, message_id |-> 0]

NoLocals ==
    [category_key |-> <<>>, category_name |-> <<>>, is_random |-> FALSE,
     loading_msg_id |-> 0, update_or_query |-> "none", business_idea |-> <<>>,
     reply_markup |-> <<>>, is_query |-> FALSE, delivery |-> FALSE]

World == [chat |-> chat, shown |-> shown, calls |-> calls]

SetWorld(w) ==
    /\ chat' = w.chat
    /\ shown' = w.shown
    /\ calls' = w.calls

\* the dispatcher waits for the next update
Idle == runPc = "serving" /\ pc = "idle"

Receive(u) ==
    /\ update' = u
    /\ UNCHANGED <<chat, shown, locals, exc, calls, errorRuns, uncaught, runVars, fnVars>>

\* the handling of the update is over: its locals and the record of what it did go
Return ==
    /\ pc = "done"
    /\ pc' = "idle"
    /\ update' = NoUpdate
    /\ locals' = NoLocals
    /\ exc' = NoExc
    /\ routed' = <<>>
    /\ calls' = <<>>
    /\ shown' = <<>>
    /\ errorRuns' = <<>>
    /\ UNCHANGED <<chat, uncaught, runVars, fnVars>>

\* a command: /start, /categories, /random, /help
RecvCommand(cmd) ==
    /\ Idle
    /\ \E h \in handlers : h.type = "command" /\ h.name = cmd /\ pc' = h.callback
    /\ routed' = <<>>
    /\ Receive([kind |-> "command", command |-> cmd, data |-> <<>>, message_id |-> 0])

\* callback_query_handler, lines 384-398, called with the data of a button of
\* message id
Callback(data, id) ==
    /\ \E h \in handlers : h.type = "callback_query"
    /\ routed' = Route(data)
    /\ pc' = IF Route(data) = <<>> THEN "done" ELSE Route(data)[1]
    /\ Receive([kind |-> "callback", command |-> "", data |-> data, message_id |-> id])

\* the user presses a button of a message in view
PressButton ==
    /\ Idle
    /\ \E k \in 1..Len(chat) : \E b \in 1..Len(chat[k].kb) :
          Callback(chat[k].kb[b], chat[k].id)

\* a callback query whose data no button in view carries (a message of an older
\* version of the bot)
StaleCallback ==
    /\ Idle
    /\ \E data \in UnknownIds : \E k \in 1..Len(chat) : Callback(data, chat[k].id)

----------------------------------------------------------------------------
(* The handlers *)

\* the handler's last call answered e: it returns, or e leaves the handler
Finish(w, e) ==
    /\ SetWorld(w)
    /\ exc' = e
    /\ pc' = IF e = NoExc THEN "done" ELSE "dispatch_error"

\* query.edit_message_text when the update is a callback query, else
\* update.message.reply_text
ReplyOrEdit(w, text, kb, result) ==
    IF update.kind = "callback"
    THEN Edit(w, update.message_id, text, MARKDOWN_V2, kb, result)
    ELSE Send(w, "reply_text", text, MARKDOWN_V2, kb, result)

\* lines 72-105
start ==
    /\ pc = "start"
    /\ \E res \in DoneOrFailed :
          Finish(Send(World, "reply_text", Fixed("welcome_message"), MARKDOWN_V2,
                      MainMenuKeyboard, res), res)
    /\ UNCHANGED <<update, locals, routed, errorRuns, uncaught, runVars, fnVars>>

\* lines 107-138
show_categories ==
    /\ pc = "show_categories"
    /\ \E res \in DoneOrFailed :
          Finish(ReplyOrEdit(World, Fixed("message"), CategoriesKeyboard, res), res)
    /\ UNCHANGED <<update, locals, routed, errorRuns, uncaught, runVars, fnVars>>

\* lines 321-359
show_help ==
    /\ pc = "show_help"
    /\ \E res \in DoneOrFailed :
          Finish(ReplyOrEdit(World, Fixed("help_text"), HelpKeyboard, res), res)
    /\ UNCHANGED <<update, locals, routed, errorRuns, uncaught, runVars, fnVars>>

\* lines 361-382
back_to_start ==
    /\ pc = "back_to_start"
    /\ \E a \in DoneOrFailed, res \in DoneOrFailed :
          LET w1 == Answer(World, a)
          IN  IF a # NoExc THEN Finish(w1, a)
              ELSE Finish(Edit(w1, update.message_id, Fixed("welcome_message"),
                               MARKDOWN_V2, MainMenuKeyboard, res), res)
    /\ UNCHANGED <<update, locals, routed, errorRuns, uncaught, runVars, fnVars>>

\* the loading text: its fixed words around the escaped category name
LoadingText(category_name) ==
    Fixed("loading_message_text") \o escape_markdown_v2(category_name)

\* lines 194-208
handle_category_selection ==
    /\ pc = "handle_category_selection"
    /\ \E a \in DoneOrFailed, res \in DoneOrFailed :
          LET w1 == Answer(World, a)
              category_key == CategoryKeyOf(update.data)
              category_name == CategoryGet(category_key)
              w2 == Edit(w1, update.message_id, LoadingText(category_name),
                         MARKDOWN_V2, <<>>, res)
              loc == [NoLocals EXCEPT !.category_key = category_key,
                                      !.category_name = category_name,
                                      !.update_or_query = "CallbackQuery"]
          IN  IF a # NoExc THEN Finish(w1, a) /\ UNCHANGED locals
              ELSE IF res # NoExc THEN Finish(w2, res) /\ locals' = loc
              ELSE SetWorld(w2) /\ locals' = loc /\ exc' = NoExc /\ pc' = "generate"
    /\ UNCHANGED <<update, routed, errorRuns, uncaught, runVars, fnVars>>

\* lines 210-240; random.choice picks any key
random_business_idea ==
    /\ pc = "random_business_idea"
    /\ \E category_key \in KeySet :
       \E a \in DoneOrFailed, res \in DoneOrFailed :
          LET category_name == BUSINESS_CATEGORIES(category_key)
              loc == [NoLocals EXCEPT !.category_key = category_key,
                                      !.category_name = category_name,
                                      !.is_random = TRUE]
              w1 == Answer(World, a)
              w2 == Edit(w1, update.message_id, LoadingText(category_name),
                         MARKDOWN_V2, <<>>, res)
              w3 == Send(World, "reply_text", LoadingText(category_name),
                         MARKDOWN_V2, <<>>, res)
          IN  IF update.kind = "callback"
              THEN IF a # NoExc THEN Finish(w1, a) /\ locals' = loc
                   ELSE IF res # NoExc THEN Finish(w2, res) /\ locals' = loc
                   ELSE /\ SetWorld(w2)
                        /\ locals' = [loc EXCEPT !.update_or_query = "CallbackQuery"]
                        /\ exc' = NoExc
                        /\ pc' = "generate"
              ELSE IF res # NoExc THEN Finish(w3, res) /\ locals' = loc
                   ELSE /\ SetWorld(w3)
                        /\ locals' = [loc EXCEPT !.update_or_query = "Update",
                                                 !.loading_msg_id = FreshId(chat)]
                        /\ exc' = NoExc
                        /\ pc' = "generate"
    /\ UNCHANGED <<update, routed, errorRuns, uncaught, runVars, fnVars>>

----------------------------------------------------------------------------
(* _generate_and_send_idea *)

\* what the completion service answers while the bot serves
ServingOutcomes ==
    { CompletionText(<<"*", "B", "i", "z", "*">>), CompletionText(<<"*", "A">>),
      CompletionRaise(Exc("ResourceExhausted", <<"q", "u", "o", "t", "a">>)) }

\* obj.message: the Message of a CallbackQuery or of a command's Update; an Update
\* that carries a callback query has none
MessageOf(obj) ==
    IF obj = "CallbackQuery" \/ update.kind = "command" THEN "Message" ELSE "None"

\* lines 281-282
IsQuery(obj) == "message" \in Attributes(obj) /\ MessageOf(obj) # "None"

\* lines 250-283: the idea, the keyboard, is_query and chat_id
generate ==
    /\ pc = "generate"
    /\ \E outcome \in ServingOutcomes :
          LET r == generate_business_idea(locals.category_name, model, outcome)
              w1 == IF model = "None" THEN World
                    ELSE Completion(World, locals.category_name)
              obj == locals.update_or_query
              is_query == IsQuery(obj)
          IN  IF r.raised # NoExc THEN Finish(w1, r.raised) /\ UNCHANGED locals
              ELSE IF ~is_query /\ "effective_chat" \notin Attributes(obj)
              THEN Finish(w1, AttributeError) /\ UNCHANGED locals
              ELSE /\ SetWorld(w1)
                   /\ locals' = [locals EXCEPT
                         !.business_idea = r.value,
                         !.reply_markup = ResultKeyboard(locals.is_random,
                                                         locals.category_key),
                         !.is_query = is_query]
                   /\ exc' = NoExc
                   /\ pc' = IF locals.loading_msg_id # 0 THEN "delete_loading"
                            ELSE "deliver"
    /\ UNCHANGED <<update, routed, errorRuns, uncaught, runVars, fnVars>>

\* lines 286-290: a BadRequest is logged and passed over
delete_loading ==
    /\ pc = "delete_loading"
    /\ \E res \in TransportResults(NoParseMode) :
          LET w1 == Delete(World, locals.loading_msg_id, res)
          IN  IF res = NoExc \/ res.cls = "BadRequest"
              THEN SetWorld(w1) /\ exc' = NoExc /\ pc' = "deliver"
              ELSE Finish(w1, res)
    /\ UNCHANGED <<update, locals, routed, errorRuns, uncaught, runVars, fnVars>>

\* a test that takes every BadRequest for a parse error
IsParseErrorAny(e) == TRUE

\* "Can't parse entities" in str(e), line 305
IsParseError(e) == Contains(e.msg, CantParseEntities)

\* the delivery of text to the user: an edit of the message that carries the
\* pressed button when is_query, else a new message
Deliver(w, text, parse_mode, result) ==
    IF locals.is_query
    THEN Edit(w, update.message_id, text, parse_mode, locals.reply_markup, result)
    ELSE Send(w, "send_message", text, parse_mode, locals.reply_markup, result)

\* is_query and update_or_query has no edit_message_text
NoEditMethod ==
    locals.is_query /\ "edit_message_text" \notin Attributes(locals.update_or_query)

\* lines 294-308 and 317-319: the formatted attempt and what its failure leads to
deliver ==
    /\ pc = "deliver"
    /\ locals' = [locals EXCEPT !.delivery = TRUE]
    /\ IF NoEditMethod
       THEN /\ exc' = AttributeError
            /\ pc' = "dispatch_error"
            /\ UNCHANGED <<chat, shown, calls>>
       ELSE \E res \in TransportResults(MARKDOWN_V2) :
               /\ SetWorld(Deliver(World, locals.business_idea, MARKDOWN_V2, res))
               /\ IF res = NoExc THEN exc' = NoExc /\ pc' = "done"
                  ELSE IF res.cls = "BadRequest"
                  THEN exc' = NoExc /\ pc' = IF IsParseError(res) THEN "fallback"
                                             ELSE "error_direct"
                  ELSE exc' = res /\ pc' = "dispatch_error"
    /\ UNCHANGED <<update, routed, errorRuns, uncaught, runVars, fnVars>>

\* lines 309-316: the idea escaped, sent with no parse mode
fallback ==
    /\ pc = "fallback"
    /\ IF NoEditMethod
       THEN /\ exc' = AttributeError
            /\ pc' = "dispatch_error"
            /\ UNCHANGED <<chat, shown, calls>>
       ELSE \E res \in TransportResults(NoParseMode) :
               Finish(Deliver(World, escape_markdown_v2(locals.business_idea),
                              NoParseMode, res), res)
    /\ UNCHANGED <<update, locals, routed, errorRuns, uncaught, runVars, fnVars>>

----------------------------------------------------------------------------
(* error_handler *)

\* lines 400-414, called with arg as its update: [raised, w]. The reply is inside
\* try/except Exception, so its failure is logged and does not leave the handler.
error_handler(w, arg, result) ==
    IF "effective_message" \notin Attributes(arg)
    THEN [raised |-> AttributeError, w |-> w]
    ELSE [raised |-> NoExc,
          w |-> Send(w, "reply_text", Fixed("error_message"), MARKDOWN_V2, <<>>, result)]

ErrorRun(via, arg, error, raised) ==
    [via |-> via, arg |-> arg, error |-> error, raised |-> raised]

\* line 319: self.error_handler(update_or_query, context)
error_direct ==
    /\ pc = "error_direct"
    /\ \E res \in DoneOrFailed :
          LET r == error_handler(World, locals.update_or_query, res)
          IN  /\ SetWorld(r.w)
              /\ errorRuns' = Append(errorRuns,
                                 ErrorRun("direct", locals.update_or_query, NoExc, r.raised))
              /\ exc' = r.raised
              /\ pc' = IF r.raised = NoExc THEN "done" ELSE "dispatch_error"
    /\ UNCHANGED <<update, locals, routed, uncaught, runVars, fnVars>>

\* the dispatcher catches what leaves a handler and calls the error handlers
\* registered by line 444 with the Update; what leaves those is logged
dispatch_error ==
    /\ pc = "dispatch_error"
    /\ IF \E h \in handlers : h.type = "error"
       THEN \E res \in DoneOrFailed :
               LET r == error_handler(World, "Update", res)
               IN  /\ SetWorld(r.w)
                   /\ errorRuns' = Append(errorRuns,
                                      ErrorRun("dispatcher", "Update", exc, r.raised))
                   /\ uncaught' = (uncaught \/ r.raised # NoExc)
       ELSE /\ uncaught' = TRUE
            /\ UNCHANGED <<chat, shown, calls, errorRuns>>
    /\ exc' = NoExc
    /\ pc' = "done"
    /\ UNCHANGED <<update, locals, routed, runVars, fnVars>>

----------------------------------------------------------------------------
(* Specifications *)

BotOff ==
    /\ TELEGRAM_BOT_TOKEN = "None"
    /\ GEMINI_API_KEY = "None"
    /\ model = "None"
    /\ WEBHOOK_URL = "None"

RunInit ==
    /\ runPc = "start"
    /\ updater = "None"
    /\ handlers = {}
    /\ transport = "none"
    /\ criticalLog = <<>>

ReqInit ==
    /\ chat = <<>>
    /\ shown = <<>>
    /\ update = NoUpdate
    /\ pc = "idle"
    /\ locals = NoLocals
    /\ exc = NoExc
    /\ routed = <<>>
    /\ calls = <<>>
    /\ errorRuns = <<>>
    /\ uncaught = FALSE

FnInit ==
    /\ fnArgs = NoArgs
    /\ fnPc = "none"
    /\ fnRet = NoRet

\* the bot: the module is imported (lines 17, 18, 39-47), then run() is called
Init ==
    /\ TELEGRAM_BOT_TOKEN \in EnvValues
    /\ GEMINI_API_KEY \in EnvValues
    /\ model \in {"GenerativeModel", "None"}
    /\ WEBHOOK_URL \in {"None", "set"}
    /\ RunInit
    /\ ReqInit
    /\ FnInit

Next ==
    \/ RunChecks
    \/ RunRegister
    \/ RunTransport
    \/ \E cmd \in {"start", "categories", "random", "help"} : RecvCommand(cmd)
    \/ PressButton
    \/ StaleCallback
    \/ start
    \/ show_categories
    \/ show_help
    \/ back_to_start
    \/ handle_category_selection
    \/ random_business_idea
    \/ generate
    \/ delete_loading
    \/ deliver
    \/ fallback
    \/ error_direct
    \/ dispatch_error
    \/ Return

Spec == Init /\ [][Next]_vars

\* escape_markdown_v2 called on every string over EscAlphabet of at most MaxEscLen
InitEscape ==
    /\ BotOff
    /\ RunInit
    /\ ReqInit
    /\ fnArgs \in { [NoArgs EXCEPT !.fn = "escape_markdown_v2", !.text = s] :
                        s \in StringsUpTo(EscAlphabet, MaxEscLen) }
    /\ fnPc = "called"
    /\ fnRet = NoRet

NextEscape == CallEscape

SpecEscape == InitEscape /\ [][NextEscape]_vars

\* generate_business_idea called with every category name, with the client
\* constructed or not, on every sample answer of the completion service
InitGateway ==
    /\ BotOff
    /\ RunInit
    /\ ReqInit
    /\ fnArgs \in { [NoArgs EXCEPT !.fn = "generate_business_idea",
                                   !.category_name = c, !.model = m, !.outcome = o] :
                        c \in CategoryNames, m \in {"GenerativeModel", "None"},
                        o \in CompletionOutcomes }
    /\ fnPc = "called"
    /\ fnRet = NoRet

NextGateway == CallGenerate

SpecGateway == InitGateway /\ [][NextGateway]_vars

----------------------------------------------------------------------------
(* Properties *)

\* the reserved characters of MarkdownV2, as the specification lists them
ReservedChars ==
    {"_", "*", "[", "]", "(", ")", "~", "U+0060", ">", "#", "+", "-", "=", "|", "{", "}",
     ".", "!"}

\* a BadRequest that says the entities cannot be parsed
ParseRejection(e) == e.cls = "BadRequest" /\ Contains(e.msg, CantParseEntities)

\* the calls that deliver the result: an edit or a new message with the result
\* keyboard (the loading message has no keyboard, the error reply is a reply_text)
DeliveryAttempts ==
    { k \in 1..Len(calls) :
        /\ locals.delivery
        /\ calls[k].op \in {"edit_message_text", "send_message"}
        /\ calls[k].reply_markup = locals.reply_markup }

FormattedAttempts ==
    { k \in DeliveryAttempts :
        calls[k].parse_mode = MARKDOWN_V2 /\ calls[k].text = locals.business_idea }

PlainAttempts ==
    { k \in DeliveryAttempts :
        /\ calls[k].parse_mode = NoParseMode
        /\ calls[k].text = escape_markdown_v2(locals.business_idea) }

\* the call the path is meant to deliver with
DeliveryOp == IF update.kind = "callback" THEN "edit_message_text" ELSE "send_message"

\* the formatted idea is on the user's screen
FormattedShown ==
    \E k \in 1..Len(shown) :
        /\ shown[k].text = locals.business_idea
        /\ shown[k].parse_mode = MARKDOWN_V2
        /\ shown[k].kb = locals.reply_markup

DeliveryContract ==
    /\ Cardinality(FormattedAttempts) = 1
    /\ \A k \in FormattedAttempts : calls[k].op = DeliveryOp
    /\ Cardinality(DeliveryAttempts) <= 2
    /\ DeliveryAttempts = FormattedAttempts \cup PlainAttempts
    /\ \A k \in FormattedAttempts :
          /\ ParseRejection(calls[k].result) =>
                /\ Cardinality(PlainAttempts) = 1
                /\ \A j \in PlainAttempts : j > k /\ calls[j].op = DeliveryOp
          /\ ~ParseRejection(calls[k].result) => PlainAttempts = {}
          /\ calls[k].result # NoExc => ~FormattedShown

\* C1: on the callback path and on the command path alike, a handled update that
\* came to the delivery step made one formatted delivery attempt (an edit on the
\* callback path, a new message on the command path); when the transport rejected
\* it as unparseable the idea was sent again exactly once, escaped and with no
\* parse mode; there were at most two attempts; a rejected formatted attempt is
\* not on the user's screen.
C1_DeliveryFallsBackOnBothPaths ==
    (pc = "done" /\ locals.delivery) => DeliveryContract

\* the same on the callback path alone
DeliveryContractOnCallbackPath ==
    (pc = "done" /\ locals.delivery /\ update.kind = "callback") => DeliveryContract

\* the plaintext retry failed
PlainFailed == \E k \in PlainAttempts : calls[k].result # NoExc

\* the formatted attempt failed with a transport error that is not a parse error
FormattedFailedOtherwise ==
    \E k \in FormattedAttempts :
        calls[k].result # NoExc /\ ~ParseRejection(calls[k].result)

ErrorReplies ==
    { k \in 1..Len(calls) :
        calls[k].op = "reply_text" /\ calls[k].text = Fixed("error_message") }

\* C2: when the plaintext retry fails, or the formatted attempt fails with a
\* transport error other than unparseable markup, error_handler runs (and logs),
\* it tries once to send the fixed error message, the failed attempt is the last
\* delivery attempt, and no exception is left unhandled.
C2_DeliveryFailureGoesToErrorHandler ==
    (pc = "done" /\ (PlainFailed \/ FormattedFailedOtherwise)) =>
        /\ errorRuns # <<>>
        /\ errorRuns[Len(errorRuns)].raised = NoExc
        /\ Cardinality(ErrorReplies) = 1
        /\ \A k \in DeliveryAttempts : \A r \in ErrorReplies : k < r
        /\ \A k \in DeliveryAttempts :
              calls[k].result # NoExc /\ ~ParseRejection(calls[k].result) =>
                 \A j \in DeliveryAttempts : j <= k
        /\ Cardinality(DeliveryAttempts) = (IF PlainFailed THEN 2 ELSE 1)
        /\ exc = NoExc
        /\ ~uncaught

C2_Witness ==
    /\ pc = "done"
    /\ PlainFailed
    /\ Cardinality(ErrorReplies) = 1

C2_WitnessOtherError ==
    /\ pc = "done"
    /\ FormattedFailedOtherwise
    /\ Cardinality(ErrorReplies) = 1

GatewayCalled == fnArgs.fn = "generate_business_idea" /\ fnPc # "called"

\* the completion service answered with a text and the client exists
CompletionSucceeds == fnArgs.model # "None" /\ fnArgs.outcome.kind = "text"

EndsWith(s, p) ==
    /\ Len(p) <= Len(s)
    /\ SubSeq(s, Len(s) - Len(p) + 1, Len(s)) = p

\* C3: generate_business_idea returns for every category name and every answer of
\* the completion service (a text, an exception, no client): the raw text on
\* success, and on failure a non-empty card between the fixed head and tail of
\* the error template; nothing is raised to the caller.
C3_GatewayAlwaysReturns ==
    GatewayCalled =>
        /\ fnPc = "returned"
        /\ fnRet.raised = NoExc
        /\ CompletionSucceeds => fnRet.value = fnArgs.outcome.text
        /\ ~CompletionSucceeds =>
              /\ fnRet.value # <<>>
              /\ StartsWith(fnRet.value, ErrorCardHead)
              /\ Contains(fnRet.value, ErrorCardMid)
              /\ EndsWith(fnRet.value, ErrorCardTail)

C3_Witness ==
    /\ GatewayCalled
    /\ fnArgs.model # "None"
    /\ fnArgs.outcome.kind = "raise"
    /\ fnArgs.outcome.e.cls = "ResourceExhausted"
    /\ fnPc = "returned"
    /\ StartsWith(fnRet.value, ErrorCardHead)

\* every reserved character of x follows a backslash
WellEscaped(x) ==
    \A k \in 1..Len(x) : x[k] \in ReservedChars => (k > 1 /\ x[k - 1] = Backslash)

\* v is the template's head, a well-escaped category, the template's middle, a
\* well-escaped detail, and the template's tail
PayloadEscaped(v) ==
    /\ StartsWith(v, ErrorCardHead)
    /\ EndsWith(v, ErrorCardTail)
    /\ \E i \in (Len(ErrorCardHead) + 1)..(Len(v) - Len(ErrorCardMid) - Len(ErrorCardTail) + 1) :
          /\ SubSeq(v, i, i + Len(ErrorCardMid) - 1) = ErrorCardMid
          /\ WellEscaped(SubSeq(v, Len(ErrorCardHead) + 1, i - 1))
          /\ WellEscaped(SubSeq(v, i + Len(ErrorCardMid), Len(v) - Len(ErrorCardTail)))

GatewayFailed == GatewayCalled /\ fnPc = "returned" /\ ~CompletionSucceeds

\* C4: the error string is non-empty, holds the category's label verbatim, and
\* outside the template's own characters holds no reserved character that does
\* not follow an escape marker.
C4_ErrorCardEscaped ==
    GatewayFailed =>
        /\ fnRet.value # <<>>
        /\ Contains(fnRet.value, fnArgs.category_name)
        /\ PayloadEscaped(fnRet.value)

\* the two clauses of C4, each alone
C4_LabelVerbatim == GatewayFailed => Contains(fnRet.value, fnArgs.category_name)
C4_PayloadEscaped == GatewayFailed => PayloadEscaped(fnRet.value)

\* what the code does with the label: the card holds it escaped
ErrorCardHoldsEscapedLabel ==
    GatewayFailed => Contains(fnRet.value, escape_markdown_v2(fnArgs.category_name))

FixedIds == {id_show_categories, id_random_idea, id_help, id_back_to_start}

\* lines 200-201 have run
KeyComputed == locals.update_or_query = "CallbackQuery"

\* C5: the router invokes at most one handler for a callback; each of the four
\* fixed identifiers invokes its own handler; category_<key>, for every key of
\* the table, invokes handle_category_selection, which works with that key and
\* that key's label, and never random_business_idea.
C5_RouterDispatch ==
    update.kind = "callback" =>
        /\ Len(routed) <= 1
        /\ update.data = id_show_categories => routed = <<"show_categories">>
        /\ update.data = id_random_idea => routed = <<"random_business_idea">>
        /\ update.data = id_help => routed = <<"show_help">>
        /\ update.data = id_back_to_start => routed = <<"back_to_start">>
        /\ \A i \in 1..Len(CategoryKeys) :
              update.data = CategoryPrefix \o CategoryKeys[i] =>
                 /\ routed = <<"handle_category_selection">>
                 /\ ~locals.is_random
                 /\ KeyComputed =>
                       /\ locals.category_key = CategoryKeys[i]
                       /\ locals.category_name = CategoryLabels[i]

C5_Witness ==
    /\ update.kind = "callback"
    /\ update.data = CategoryPrefix \o key_ecommerce
    /\ routed = <<"handle_category_selection">>
    /\ pc = "generate"
    /\ locals.category_name = label_ecommerce

UnknownCallback ==
    /\ update.kind = "callback"
    /\ update.data \notin FixedIds
    /\ ~StartsWith(update.data, CategoryPrefix)

\* C6: a callback whose identifier is none of the four fixed ones and does not
\* start with category_ invokes no handler, calls neither the transport nor the
\* completion service, sends no error reply and raises nothing.
C6_UnknownCallbackIsDropped ==
    UnknownCallback =>
        /\ pc = "done"
        /\ routed = <<>>
        /\ calls = <<>>
        /\ shown = <<>>
        /\ errorRuns = <<>>
        /\ exc = NoExc

C6_Witness ==
    /\ UnknownCallback
    /\ update.data = id_unknown_inner
    /\ pc = "done"

RandomCommand == update.kind = "command" /\ update.command = "random"

AllCallsDone == \A k \in 1..Len(calls) : calls[k].result = NoExc

IsErrorCard(text) == StartsWith(text, ErrorCardHead)

IdeasShown ==
    { k \in 1..Len(shown) : shown[k].kb # <<>> /\ ~IsErrorCard(shown[k].text) }

ErrorCardsShown ==
    { k \in 1..Len(shown) : shown[k].kb # <<>> /\ IsErrorCard(shown[k].text) }

LoadingShown ==
    \E k \in 1..Len(shown) : StartsWith(shown[k].text, Fixed("loading_message_text"))

\* C7: /random picks one of the 12 categories, sends the loading message before
\* it asks for the completion, and then, the transport doing all it is asked,
\* shows in place of the loading message the formatted idea or the formatted
\* error card, and never both.
C7_RandomCommandShowsResult ==
    (pc = "done" /\ RandomCommand /\ AllCallsDone) =>
        /\ Len(CategoryKeys) = 12
        /\ locals.category_key \in KeySet
        /\ \E i, j \in 1..Len(calls) :
              /\ i < j
              /\ calls[i].op = "reply_text"
              /\ StartsWith(calls[i].text, Fixed("loading_message_text"))
              /\ calls[j].op = "generate_content"
        /\ ~LoadingShown
        /\ Cardinality(IdeasShown) + Cardinality(ErrorCardsShown) = 1
        /\ \A k \in IdeasShown \cup ErrorCardsShown : shown[k].parse_mode = MARKDOWN_V2

\* an idea and an error card are never both on the screen for one update
NeverIdeaAndErrorCard == IdeasShown = {} \/ ErrorCardsShown = {}

EscapeCalled == fnArgs.fn = "escape_markdown_v2" /\ fnPc = "returned"

\* the number of reserved characters among the first i of s
ReservedUpTo(s, i) == Cardinality({ k \in 1..i : s[k] \in ReservedChars })

\* the places of r that hold a backslash right before a reserved character
MarkerPlaces(r) ==
    { j \in 1..Len(r) : r[j] = Backslash /\ j < Len(r) /\ r[j + 1] \in ReservedChars }

\* r without its characters at the places in drop
WithoutPlaces(r, drop) ==
    LET keep == (1..Len(r)) \ drop
    IN  [n \in 1..Cardinality(keep) |->
            r[CHOOSE j \in keep : Cardinality({ k \in keep : k <= j }) = n]]

\* C8: escape_markdown_v2 puts exactly one backslash right before each reserved
\* character and changes nothing else, so that taking the inserted backslashes
\* out gives the input back.
C8_EscapeRoundTrip ==
    EscapeCalled =>
        LET s == fnArgs.text
            r == fnRet.value
        IN  /\ Len(r) = Len(s) + ReservedUpTo(s, Len(s))
            /\ \A i \in 1..Len(s) :
                  /\ r[i + ReservedUpTo(s, i)] = s[i]
                  /\ s[i] \in ReservedChars => r[i + ReservedUpTo(s, i) - 1] = Backslash
            /\ WithoutPlaces(r, MarkerPlaces(r)) = s

C8_Witness ==
    /\ EscapeCalled
    /\ fnArgs.text = <<Backslash, "*">>
    /\ fnRet.value = <<Backslash, Backslash, "*">>

MissingAtStartup ==
    \/ TELEGRAM_BOT_TOKEN \in {"None", ""}
    \/ GEMINI_API_KEY \in {"None", ""}
    \/ model = "None"

\* C9: with the token absent, the key absent, or the completion client not
\* constructed, run() constructs no updater, registers no handler, starts neither
\* polling nor a webhook and serves nothing; when it has returned it has logged.
C9_NoPartialStart ==
    MissingAtStartup =>
        /\ updater = "None"
        /\ handlers = {}
        /\ transport = "none"
        /\ runPc \in {"start", "returned"}
        /\ runPc = "returned" => Len(criticalLog) = 1
        /\ pc = "idle"
        /\ calls = <<>>
        /\ chat = <<>>

C9_Witness ==
    /\ runPc = "returned"
    /\ TELEGRAM_BOT_TOKEN = "set"
    /\ GEMINI_API_KEY = "set"
    /\ model = "None"
    /\ Len(criticalLog) = 1

\* the keyboards the bot has attached: those in view and those of this update
EmittedKeyboards ==
    { chat[k].kb : k \in 1..Len(chat) }
      \cup { shown[k].kb : k \in 1..Len(shown) }
      \cup { calls[k].reply_markup : k \in 1..Len(calls) }

\* C10: every button the bot attaches carries callback data the router has a
\* handler for, and a category_<key> button carries a key of the category table.
C10_EmittedButtonsAreRoutable ==
    \A kb \in EmittedKeyboards : \A b \in 1..Len(kb) :
        /\ Route(kb[b]) # <<>>
        /\ Route(kb[b]) = <<"handle_category_selection">> =>
              /\ CategoryKeyOf(kb[b]) \in KeySet
              /\ CategoryGet(CategoryKeyOf(kb[b])) # UnknownCategory

C10_Witness ==
    /\ pc = "done"
    /\ \E k \in 1..Len(shown) :
          /\ shown[k].parse_mode = NoParseMode
          /\ shown[k].kb = ResultKeyboard(FALSE, key_ecommerce)
    /\ \E k \in 1..Len(chat) : chat[k].kb = ResultKeyboard(FALSE, key_ecommerce)

====
